---- MODULE Spec2Model ----
(***************************************************************************)
(* Frequent-itemset miner of Aka2210/Hamm-Algorithm.                       *)
(*                                                                         *)
(* Two programs are modelled from their sources:                           *)
(*   "Hamm"  : src/unnamed/part_001, FP-Growth with the single-node        *)
(*             shortcut (is_single_node + hamm_search_optimized),          *)
(*             whitespace-separated input, absolute supports;              *)
(*   "Plain" : src/Hamm.cpp, FP-Growth that always builds the conditional  *)
(*             pattern base, comma-separated input, relative supports.     *)
(*                                                                         *)
(* An input file is a sequence of lines, a line a sequence of tokens.  A   *)
(* run is: read the file, count and filter, build the FP-tree, open the    *)
(* output, then mine one header entry per step with an explicit call       *)
(* stack.  Pointers are indices: a node is its position in its tree's node *)
(* sequence (1 is the root), 0 is nullptr; a tree is its position in heap. *)
(***************************************************************************)
EXTENDS Integers, Sequences, FiniteSets, TLC

\* ------------------------------------------------------------------ bounds
NItems == 3          \* files of item sets use the identifiers 1..NItems
MaxTx == 3           \* lines per file of item sets
MaxPerm == 2         \* lines per file of reordered lines
MaxRawLen == 2       \* tokens per raw line
MaxBig == 2          \* lines per file holding an identifier out of range
MaxBlank == 3        \* lines per file with blank lines
MaxDepth == 6        \* FP_Growth frames the process stack holds

\* size of headerMap, condCounts and Plain's headers
Capacity == 1000

Items == 1..NItems

\* the largest identifier below Capacity that an input holds
MaxId == NItems + 1

Min(a, b) == IF a < b THEN a ELSE b

\* the part of the scan `for (item = 0; item < 1000; item++)` that can hold
\* a count
ScanIds == [i \in 1..Min(Capacity, MaxId + 1) |-> i - 1]

\* every identifier an input can hold, ascending: those of the scan and the
\* first one past the per-item arrays
InputIds == ScanIds \o <<Capacity>>

\* ------------------------------------------------------------------ tokens
\* "int": a decimal integer; "mixed": digits followed by other characters
\* (such as 2x); "junk": no leading digits (such as x).
IntTok(n) == [k |-> "int", v |-> n]
MixedTok(n) == [k |-> "mixed", v |-> n]
JunkTok == [k |-> "junk", v |-> 0]

\* ------------------------------------------------------------- sequences
Range(s) == {s[i] : i \in 1..Len(s)}

Reverse(s) == [i \in 1..Len(s) |-> s[Len(s) + 1 - i]]

\* the pairs of positions of s
Pos(s) == (1..Len(s)) \X (1..Len(s))

\* std::sort under a strict weak order, given as the set of position pairs
\* <<i, j>> for which the comparator says s[i] comes before s[j]; equal
\* elements are identical values here, so their relative order cannot be
\* observed.
StdSort(s, before) ==
    LET n == Len(s)
        rank(i) == Cardinality({j \in 1..n : <<j, i>> \in before
                                    \/ (<<i, j>> \notin before /\ j < i)}) + 1
    IN [r \in 1..n |-> s[CHOOSE i \in 1..n : rank(i) = r]]

\* sort(pattern.begin(), pattern.end())
SortInts(s) == StdSort(s, {p \in Pos(s) : s[p[1]] < s[p[2]]})

RECURSIVE SumSeq(_)
SumSeq(s) == IF s = <<>> THEN 0 ELSE Head(s) + SumSeq(Tail(s))

RECURSIVE Flatten(_)
Flatten(ss) == IF ss = <<>> THEN <<>> ELSE Head(ss) \o Flatten(Tail(ss))

\* number of positions of s holding x
Occurrences(s, x) == Cardinality({i \in 1..Len(s) : s[i] = x})

\* ------------------------------------------------------------ structures
Node(item, freq, parent) ==
    [item |-> item, freq |-> freq, parent |-> parent,
     children |-> <<>>, hlink |-> 0]

RootNode == Node(-1, 0, 0)

Header(item, freq) == [item |-> item, freq |-> freq, next |-> 0, tail |-> 0]

\* ----------------------------------------------------------- comparators
\* ascending support, ties by ascending item: order of a header table
HeaderLess(a, b) ==
    IF a.freq = b.freq THEN a.item < b.item ELSE a.freq < b.freq

\* ascending support, ties by descending item: Plain's top-level table
HeaderLessPlain(a, b) ==
    IF a.freq = b.freq THEN a.item > b.item ELSE a.freq < b.freq

\* descending support, ties by ascending item: order along a tree path
PathLess(a, b) ==
    IF a.freq = b.freq THEN a.item < b.item ELSE a.freq > b.freq

\* sort of a header table with the comparator HeaderLess
SortHeaders(hs) ==
    StdSort(hs, {p \in Pos(hs) : HeaderLess(hs[p[1]], hs[p[2]])})

\* ---------------------------------------------------------------- output
\* write_output sorts the pattern and prints the support; one output line is
\* the sorted items and the support handed to the sink.
\* Plain prints round(support / N * 10000) / 10000 with four decimals; the
\* value is kept in ten-thousandths.
RoundRatio(support, total) == (2 * 10000 * support + total) \div (2 * total)

\* One output line: the pattern sorted, the support handed to the sink and
\* the number printed after the items (" #SUP: <count>" or ":<ratio>").
write_output(prog_, pattern, support, total_transactions) ==
    [items |-> SortInts(pattern), sup |-> support,
     shown |-> IF prog_ = "Hamm" THEN support
               ELSE RoundRatio(support, total_transactions)]

\* mutant: the comparison excludes the threshold itself
remove_infrequent_items_Strict(itemList, min_sup_) ==
    SelectSeq(itemList, LAMBDA h : h.freq > min_sup_)

remove_infrequent_items(itemList, min_sup_) ==
    SelectSeq(itemList, LAMBDA h : h.freq >= min_sup_)

\* ------------------------------------------------------------------ trees
\* mutant: only the first child is compared
get_child_FirstOnly(nodes, parent, item) ==
    LET ch == nodes[parent].children
    IN IF ch # <<>> /\ nodes[ch[1]].item = item THEN ch[1] ELSE 0

get_child(nodes, parent, item) ==
    LET ch == nodes[parent].children
        hit == {i \in 1..Len(ch) : nodes[ch[i]].item = item}
    IN IF hit = {} THEN 0
       ELSE ch[CHOOSE i \in hit : \A j \in hit : i <= j]

add_child(nodes, parent, child) ==
    [nodes EXCEPT ![parent].children = Append(@, child)]

\* index in hs of the entry headerMap holds for item (0: nullptr)
HeaderIndex(hs, item) ==
    LET hit == {i \in 1..Len(hs) : hs[i].item = item}
    IN IF hit = {} THEN 0 ELSE CHOOSE i \in hit : \A j \in hit : i >= j

\* mutant: a new node starts at 1 instead of the path's multiplicity
InsertItem_UnitCount(T, hi, count, curr) ==
    LET item == T.headers[hi].item
        child == get_child(T.nodes, curr, item)
    IN IF child # 0
       THEN [nodes |-> [T.nodes EXCEPT ![child].freq = @ + count],
             headers |-> T.headers, curr |-> child]
       ELSE LET n == Len(T.nodes) + 1
                linked == add_child(Append(T.nodes, Node(item, 1, curr)),
                                    curr, n)
                h == T.headers[hi]
            IN IF h.next = 0
               THEN [nodes |-> linked,
                     headers |-> [T.headers EXCEPT ![hi].next = n,
                                                   ![hi].tail = n],
                     curr |-> n]
               ELSE [nodes |-> [linked EXCEPT ![h.tail].hlink = n],
                     headers |-> [T.headers EXCEPT ![hi].tail = n],
                     curr |-> n]

\* mutant: a node appended to a chain does not become the tail
InsertItem_TailStays(T, hi, count, curr) ==
    LET item == T.headers[hi].item
        child == get_child(T.nodes, curr, item)
    IN IF child # 0
       THEN [nodes |-> [T.nodes EXCEPT ![child].freq = @ + count],
             headers |-> T.headers, curr |-> child]
       ELSE LET n == Len(T.nodes) + 1
                linked == add_child(Append(T.nodes, Node(item, count, curr)),
                                    curr, n)
                h == T.headers[hi]
            IN IF h.next = 0
               THEN [nodes |-> linked,
                     headers |-> [T.headers EXCEPT ![hi].next = n,
                                                   ![hi].tail = n],
                     curr |-> n]
               ELSE [nodes |-> [linked EXCEPT ![h.tail].hlink = n],
                     headers |-> T.headers,
                     curr |-> n]

\* mutant: an existing child is followed without adding the multiplicity
InsertItem_NoIncrement(T, hi, count, curr) ==
    LET item == T.headers[hi].item
        child == get_child(T.nodes, curr, item)
    IN IF child # 0
       THEN [nodes |-> T.nodes, headers |-> T.headers, curr |-> child]
       ELSE LET n == Len(T.nodes) + 1
                linked == add_child(Append(T.nodes, Node(item, count, curr)),
                                    curr, n)
                h == T.headers[hi]
            IN IF h.next = 0
               THEN [nodes |-> linked,
                     headers |-> [T.headers EXCEPT ![hi].next = n,
                                                   ![hi].tail = n],
                     curr |-> n]
               ELSE [nodes |-> [linked EXCEPT ![h.tail].hlink = n],
                     headers |-> [T.headers EXCEPT ![hi].tail = n],
                     curr |-> n]

\* One step of the insertion loop: T is [nodes, headers], hi the header's
\* index, curr the current node.  Result: the tree and the new current node.
InsertItem(T, hi, count, curr) ==
    LET item == T.headers[hi].item
        child == get_child(T.nodes, curr, item)
    IN IF child # 0
       THEN [nodes |-> [T.nodes EXCEPT ![child].freq = @ + count],
             headers |-> T.headers, curr |-> child]
       ELSE LET n == Len(T.nodes) + 1
                linked == add_child(Append(T.nodes, Node(item, count, curr)),
                                    curr, n)
                h == T.headers[hi]
            IN IF h.next = 0
               THEN [nodes |-> linked,
                     headers |-> [T.headers EXCEPT ![hi].next = n,
                                                   ![hi].tail = n],
                     curr |-> n]
               ELSE [nodes |-> [linked EXCEPT ![h.tail].hlink = n],
                     headers |-> [T.headers EXCEPT ![hi].tail = n],
                     curr |-> n]

RECURSIVE InsertPath(_, _, _, _)
InsertPath(T, sortedPath, count, curr) ==
    IF sortedPath = <<>> THEN [nodes |-> T.nodes, headers |-> T.headers]
    ELSE LET r == InsertItem(T, Head(sortedPath), count, curr)
         IN InsertPath(r, Tail(sortedPath), count, r.curr)

\* header indices of the items of rawPath that headerMap knows
FilterPath(hs, rawPath) ==
    LET idx == [i \in 1..Len(rawPath) |-> HeaderIndex(hs, rawPath[i])]
    IN SelectSeq(idx, LAMBDA i : i # 0)

\* mutant: the path is inserted in the order it was read
SortPath_Unsorted(hs, path) == path

\* mutant: the path is sorted with the comparator of the header table
SortPath_Ascending(hs, path) ==
    StdSort(path, {p \in Pos(path) :
                      HeaderLess(hs[path[p[1]]], hs[path[p[2]]])})

SortPath(hs, path) ==
    StdSort(path, {p \in Pos(path) :
                      PathLess(hs[path[p[1]]], hs[path[p[2]]])})

RECURSIVE InsertAll(_, _)
InsertAll(T, condPaths) ==
    IF condPaths = <<>> THEN T
    ELSE LET p == Head(condPaths)
             sortedPath == SortPath(T.headers, FilterPath(T.headers, p[1]))
         IN InsertAll(InsertPath(T, sortedPath, p[2], 1), Tail(condPaths))

construct_tree(condPaths, newHeaders) ==
    InsertAll([nodes |-> <<RootNode>>,
               headers |-> [i \in 1..Len(newHeaders) |->
                              [newHeaders[i] EXCEPT !.next = 0, !.tail = 0]]],
              condPaths)

\* ----------------------------------------------------------------- mining
\* mutant: the test for a second node on the chain is missing
is_single_node_AnyChain(nodes, header) == header.next # 0

is_single_node(nodes, header) ==
    header.next # 0 /\ nodes[header.next].hlink = 0

\* the nodes of a node-link chain, from node n on
RECURSIVE Chain(_, _)
Chain(nodes, n) ==
    IF n = 0 THEN <<>> ELSE <<n>> \o Chain(nodes, nodes[n].hlink)

\* the items met walking from node p up to the root (the root excluded)
RECURSIVE PathUp(_, _)
PathUp(nodes, p) ==
    IF nodes[p].item = -1 THEN <<>>
    ELSE <<nodes[p].item>> \o PathUp(nodes, nodes[p].parent)

\* mutant: the walk starts at the node itself instead of its parent
Ancestors_WithSelf(nodes, n) == PathUp(nodes, n)

Ancestors(nodes, n) == PathUp(nodes, nodes[n].parent)

\* mutant: the branch that leaves the current ancestor out is missing
RECURSIVE hamm_search_optimized_NoSkip(_, _, _, _, _, _)
hamm_search_optimized_NoSkip(index, current_sum, current_pattern, IL, min_sup_, total) ==
    IF index = Len(IL)
    THEN IF current_pattern # <<>>
         THEN <<write_output("Hamm", current_pattern, current_sum,
                             total)>>
         ELSE <<>>
    ELSE hamm_search_optimized_NoSkip(index + 1, current_sum,
                                      Append(current_pattern, IL[index + 1]),
                                      IL, min_sup_, total)

\* index is 0-based as in the source; the result is the lines written
RECURSIVE hamm_search_optimized(_, _, _, _, _, _)
hamm_search_optimized(index, current_sum, current_pattern, IL, min_sup_, total) ==
    IF index = Len(IL)
    THEN IF current_pattern # <<>>
         THEN <<write_output("Hamm", current_pattern, current_sum,
                             total)>>
         ELSE <<>>
    ELSE (IF current_sum >= min_sup_
          THEN hamm_search_optimized(index + 1, current_sum, current_pattern,
                                     IL, min_sup_, total)
          ELSE <<>>)
         \o hamm_search_optimized(index + 1, current_sum,
                                  Append(current_pattern, IL[index + 1]),
                                  IL, min_sup_, total)

\* the lines the single-node branch of FP_Growth writes for one header
LinearOutput(nodes, header, newPattern, min_sup_, total_transactions) ==
    hamm_search_optimized(0, header.freq, newPattern,
                          Ancestors(nodes, header.next), min_sup_,
                          total_transactions)

\* condPaths of the Hamm program: ancestor path (leaf side first) and count
CondPathsHamm(nodes, header) ==
    LET ch == Chain(nodes, header.next)
        all == [i \in 1..Len(ch) |->
                  <<Ancestors(nodes, ch[i]), nodes[ch[i]].freq>>]
    IN SelectSeq(all, LAMBDA p : p[1] # <<>>)

\* mutant: every path is recorded with multiplicity 1
CondPathsPlain_UnitCount(nodes, header) ==
    LET ch == Chain(nodes, header.next)
    IN [i \in 1..Len(ch) |->
          <<Reverse(<<nodes[ch[i]].item>> \o Ancestors(nodes, ch[i])), 1>>]

\* condPaths of the Plain program: the node's own item is pushed first and
\* the path is reversed
CondPathsPlain(nodes, header) ==
    LET ch == Chain(nodes, header.next)
    IN [i \in 1..Len(ch) |->
          <<Reverse(<<nodes[ch[i]].item>> \o Ancestors(nodes, ch[i])),
            nodes[ch[i]].freq>>]

\* mutant: every node of the chain adds the header's aggregate support
CondCount_HeaderFreq(nodes, header, item) ==
    LET ch == Chain(nodes, header.next)
    IN SumSeq([i \in 1..Len(ch) |->
                 header.freq * Occurrences(Ancestors(nodes, ch[i]), item)])

\* condCounts[item] after the walk over the chain
CondCount(nodes, header, item) ==
    LET ch == Chain(nodes, header.next)
    IN SumSeq([i \in 1..Len(ch) |->
                 nodes[ch[i]].freq * Occurrences(Ancestors(nodes, ch[i]), item)])

\* mutant: the comparison excludes the threshold itself
NewHeaders_Strict(nodes, header, min_sup_) ==
    LET kept == SelectSeq(ScanIds, LAMBDA it :
                              CondCount(nodes, header, it) > min_sup_)
    IN SortHeaders([i \in 1..Len(kept) |->
                      Header(kept[i], CondCount(nodes, header, kept[i]))])

\* newHeaders: the scan is over ascending item, then the table is sorted
NewHeaders(nodes, header, min_sup_) ==
    LET kept == SelectSeq(ScanIds, LAMBDA it :
                              CondCount(nodes, header, it) >= min_sup_)
    IN SortHeaders([i \in 1..Len(kept) |->
                      Header(kept[i], CondCount(nodes, header, kept[i]))])

\* the conditional tree Plain builds inline
CondTreePlain(condPaths, newHeaders) ==
    InsertAll([nodes |-> <<RootNode>>, headers |-> newHeaders], condPaths)

CondTree(prog_, nodes, header, min_sup_) ==
    IF prog_ = "Hamm"
    THEN construct_tree(CondPathsHamm(nodes, header),
                        NewHeaders(nodes, header, min_sup_))
    ELSE CondTreePlain(CondPathsPlain(nodes, header),
                       NewHeaders(nodes, header, min_sup_))

\* newPattern as the recursive call receives it: Plain's write_output sorts
\* it in place, Hamm's works on a copy
NewPattern(prog_, prefix, header) ==
    IF prog_ = "Plain" THEN SortInts(Append(prefix, header.item))
    ELSE Append(prefix, header.item)

TakesShortcut(prog_, nodes, header) ==
    prog_ = "Hamm" /\ is_single_node(nodes, header)

\* mutant: prefix is shared between the loop iterations, so every entry is
\* mined under the items of the entries processed before it
RECURSIVE FP_Growth_SharedPrefix(_, _, _, _, _, _)
FP_Growth_SharedPrefix(prog_, T, prefix, min_sup_, total_transactions, depth) ==
    LET entry(i) ==
          LET header == T.headers[i]
              shared == prefix \o [j \in 1..(i - 1) |-> T.headers[j].item]
              newPattern == NewPattern(prog_, shared, header)
              first == <<write_output(prog_, Append(shared, header.item),
                                      header.freq, total_transactions)>>
          IN IF TakesShortcut(prog_, T.nodes, header)
             THEN first \o LinearOutput(T.nodes, header,
                                        Append(shared, header.item), min_sup_,
                                        total_transactions)
             ELSE IF NewHeaders(T.nodes, header, min_sup_) = <<>>
                     \/ depth >= MaxDepth
                  THEN first
                  ELSE first \o FP_Growth_SharedPrefix(prog_,
                                          CondTree(prog_, T.nodes, header,
                                                   min_sup_),
                                          newPattern, min_sup_,
                                          total_transactions, depth + 1)
    IN Flatten([i \in 1..Len(T.headers) |-> entry(i)])

\* FP_Growth as a function: every line one call writes, in order.  depth
\* counts the frames in use.
RECURSIVE FP_Growth(_, _, _, _, _, _)
FP_Growth(prog_, T, prefix, min_sup_, total_transactions, depth) ==
    LET entry(i) ==
          LET header == T.headers[i]
              newPattern == NewPattern(prog_, prefix, header)
              first == <<write_output(prog_, Append(prefix, header.item),
                                      header.freq, total_transactions)>>
          IN IF TakesShortcut(prog_, T.nodes, header)
             THEN first \o LinearOutput(T.nodes, header,
                                        Append(prefix, header.item), min_sup_,
                                        total_transactions)
             ELSE IF NewHeaders(T.nodes, header, min_sup_) = <<>>
                     \/ depth >= MaxDepth
                  THEN first
                  ELSE first \o FP_Growth(prog_,
                                          CondTree(prog_, T.nodes, header,
                                                   min_sup_),
                                          newPattern, min_sup_,
                                          total_transactions, depth + 1)
    IN Flatten([i \in 1..Len(T.headers) |-> entry(i)])

\* ------------------------------------------------------------------- main
\* Hamm reads a line with `while (ss >> item_id)`: extraction stops at the
\* first token that is not an integer; the digits of a mixed token are read
\* before it stops.
RECURSIVE ReadLineHamm(_)
ReadLineHamm(line) ==
    IF line = <<>> THEN <<>>
    ELSE IF Head(line).k = "int"
         THEN <<Head(line).v>> \o ReadLineHamm(Tail(line))
         ELSE IF Head(line).k = "mixed" THEN <<Head(line).v>> ELSE <<>>

\* Hamm skips a line that is empty
ReadFileHamm(lines) ==
    LET kept == SelectSeq(lines, LAMBDA l : l # <<>>)
    IN [i \in 1..Len(kept) |-> ReadLineHamm(kept[i])]

\* Plain converts every token with stoi: leading digits are accepted, a
\* token without any throws std::invalid_argument
StoiThrows(lines) ==
    \E i \in 1..Len(lines) : \E j \in 1..Len(lines[i]) :
        lines[i][j].k = "junk"

ReadFilePlain(lines) ==
    [i \in 1..Len(lines) |-> [j \in 1..Len(lines[i]) |-> lines[i][j].v]]

\* (int)ceil(min_sup_rate * transactions.size()) for the rate num/den
MinSup(rate, n) == (rate[1] * n + rate[2] - 1) \div rate[2]

\* temp_counts[id] / headers[id]->freq: one increment per token read
TempCount(txs, id) == SumSeq([i \in 1..Len(txs) |-> Occurrences(txs[i], id)])

\* the identifiers that occur, ascending (the iteration order of the map)
SeenIds(txs) ==
    SelectSeq(InputIds, LAMBDA id : TempCount(txs, id) > 0)

\* Hamm's top-level header table
HeadersHamm(txs, min_sup_) ==
    LET ids == SelectSeq(SeenIds(txs),
                         LAMBDA id : TempCount(txs, id) >= min_sup_)
        hs == [i \in 1..Len(ids) |-> Header(ids[i], TempCount(txs, ids[i]))]
    IN remove_infrequent_items(SortHeaders(hs), min_sup_)

\* initialPaths: every transaction filtered by header_map, empty ones dropped
InitialPaths(txs, hs) ==
    LET filtered == [i \in 1..Len(txs) |->
                       <<SelectSeq(txs[i],
                                   LAMBDA id : HeaderIndex(hs, id) # 0), 1>>]
    IN SelectSeq(filtered, LAMBDA p : p[1] # <<>>)

BuildHamm(txs, min_sup_) ==
    LET hs == HeadersHamm(txs, min_sup_)
    IN construct_tree(InitialPaths(txs, hs), hs)

\* Plain's top-level header table: the Capacity slots of headers, sorted and
\* pruned; a header stored past the end of the vector is not among them
HeadersPlain(txs, min_sup_) ==
    LET ids == SelectSeq(SeenIds(txs), LAMBDA id : id < Capacity)
        hs == [i \in 1..Len(ids) |-> Header(ids[i], TempCount(txs, ids[i]))]
    IN remove_infrequent_items(
           StdSort(hs, {p \in Pos(hs) : HeaderLessPlain(hs[p[1]], hs[p[2]])}),
           min_sup_)

\* Plain sorts each transaction (of all its headers) and then prunes it
SortedTransaction(txs, tx, min_sup_) ==
    LET all == [i \in 1..Len(tx) |-> Header(tx[i], TempCount(txs, tx[i]))]
    IN remove_infrequent_items(
           StdSort(all, {p \in Pos(all) : PathLess(all[p[1]], all[p[2]])}),
           min_sup_)

RECURSIVE InsertTransactions(_, _)
InsertTransactions(T, sortedTxs) ==
    IF sortedTxs = <<>> THEN T
    ELSE LET tx == Head(sortedTxs)
             path == [i \in 1..Len(tx) |-> HeaderIndex(T.headers, tx[i].item)]
         IN InsertTransactions(InsertPath(T, path, 1, 1), Tail(sortedTxs))

\* the headers Plain stored past the end of headers: the transactions keep
\* their pointers, the table does not list them
StrayHeaders(txs, min_sup_) ==
    LET ids == SelectSeq(SeenIds(txs), LAMBDA id :
                             id >= Capacity /\ TempCount(txs, id) >= min_sup_)
    IN [i \in 1..Len(ids) |-> Header(ids[i], TempCount(txs, ids[i]))]

BuildPlain(txs, min_sup_) ==
    LET listed == HeadersPlain(txs, min_sup_)
        built == InsertTransactions(
                     [nodes |-> <<RootNode>>,
                      headers |-> listed \o StrayHeaders(txs, min_sup_)],
                     [i \in 1..Len(txs) |->
                         SortedTransaction(txs, txs[i], min_sup_)])
    IN [nodes |-> built.nodes,
        headers |-> SubSeq(built.headers, 1, Len(listed))]

BuildTop(prog_, txs, min_sup_) ==
    IF prog_ = "Hamm" THEN BuildHamm(txs, min_sup_)
    ELSE BuildPlain(txs, min_sup_)

\* main as a function: the lines a whole run writes for an input file
RunOutput(prog_, lines, rate) ==
    IF prog_ = "Plain" /\ StoiThrows(lines) THEN <<>>
    ELSE LET txs == IF prog_ = "Hamm" THEN ReadFileHamm(lines)
                    ELSE ReadFilePlain(lines)
             ms == MinSup(rate, Len(txs))
         IN FP_Growth(prog_, BuildTop(prog_, txs, ms), <<>>, ms, Len(txs), 1)

\* ------------------------------------------------------------------ inputs
Ratios == {<<1, 4>>, <<1, 2>>, <<1, 1>>}

SeqsUpTo(S, n) == UNION {[1..k -> S] : k \in 0..n}

Line(items) == [i \in 1..Len(items) |-> IntTok(items[i])]

\* one line per non-empty item set over 1..NItems, items ascending
SetLines ==
    {Line(t) : t \in {u \in SeqsUpTo(Items, NItems) :
                        u # <<>> /\ \A i \in 1..(Len(u) - 1) : u[i] < u[i + 1]}}

\* a line's item set as a number, to order the lines of a file
RECURSIVE Code(_)
Code(line) == IF line = <<>> THEN 0 ELSE 2 ^ (Head(line).v - 1) + Code(Tail(line))

\* the files of at most MaxTx item sets, one file per multiset of lines
SetFiles ==
    {f \in SeqsUpTo(SetLines, MaxTx) :
        \A i \in 1..(Len(f) - 1) : Code(f[i]) <= Code(f[i + 1])}

\* the orderings of a set of items
Orderings(S) ==
    {u \in [1..Cardinality(S) -> S] :
        \A i, j \in 1..Cardinality(S) : i # j => u[i] # u[j]}

\* the item sets {1, 2} and {1, 2, 3}, items in every order
PermLines == {Line(t) : t \in Orderings({1, 2}) \cup Orderings({1, 2, 3})}

\* the files of at most MaxPerm such lines, in any order
PermFiles == SeqsUpTo(PermLines, MaxPerm)

\* raw lines: blank, repeated items, tokens that are not integers
RawTokens == {IntTok(1), MixedTok(2), JunkTok}

RawLines == SeqsUpTo(RawTokens, MaxRawLen)

\* the empty file and the files of one raw line
RawFiles == {<<>>} \cup {<<l>> : l \in RawLines}

\* end-to-end scenario 1 of the specification
Scenario1 == <<Line(<<1, 2, 3>>), Line(<<1, 2>>), Line(<<1>>), Line(<<2, 3>>)>>

\* an input whose conditional tree for item 4 branches, so that the program
\* with the shortcut recurses twice
Scenario2 ==
    <<Line(<<1, 3, 4>>), Line(<<1, 3, 4>>), Line(<<2, 3, 4>>),
      Line(<<2, 3, 4>>), Line(<<1, 4>>), Line(<<2, 4>>), Line(<<1, 2, 3>>),
      Line(<<1, 2, 3>>), Line(<<1, 2, 3>>), Line(<<1, 2, 3>>)>>

\* item sets that may hold the identifier Capacity, past the per-item arrays
BigLines ==
    {Line(t) : t \in {<<Capacity>>, <<1, Capacity>>, <<2, Capacity>>,
                       <<1, 2, Capacity>>, <<1>>, <<2>>, <<1, 2>>}}

BigFiles == SeqsUpTo(BigLines, MaxBig)

\* an input in which the identifier Capacity is an ancestor of both nodes of
\* item 1
Scenario3 ==
    <<Line(<<1, 2, Capacity>>), Line(<<1, Capacity>>), Line(<<2, Capacity>>),
      Line(<<2, Capacity>>)>>

\* files in which blank lines stand between, before and after transactions
BlankLines == {<<>>, Line(<<1>>), Line(<<1, 2>>)}

BlankFiles == SeqsUpTo(BlankLines, MaxBlank)

Inputs ==
    SetFiles \cup PermFiles \cup RawFiles \cup BigFiles \cup BlankFiles
        \cup {Scenario1, Scenario2, Scenario3}

\* ------------------------------------------------------------------- state
VARIABLES
    prog,          \* "Hamm" or "Plain"
    min_sup_rate,  \* argv[1] as <<numerator, denominator>>
    input,         \* the input file: lines of tokens
    pc,            \* position in main
    transactions,  \* the transactions read
    min_sup,       \* the absolute threshold
    heap,          \* every tree allocated so far: [nodes, headers]
    stack,         \* FP_Growth frames: [tree, idx, prefix]
    out,           \* the lines written to the output file
    status         \* exit status (-1 while running)

vars == <<prog, min_sup_rate, input, pc, transactions, min_sup, heap, stack,
          out, status>>

Init ==
    /\ prog \in {"Hamm", "Plain"}
    /\ min_sup_rate \in Ratios
    /\ input \in Inputs
    /\ pc = "read"
    /\ transactions = <<>>
    /\ min_sup = 0
    /\ heap = <<>>
    /\ stack = <<>>
    /\ out = <<>>
    /\ status = -1

\* the read loop of main
ReadInput ==
    /\ pc = "read"
    /\ ~(prog = "Plain" /\ StoiThrows(input))
    /\ transactions' = IF prog = "Hamm" THEN ReadFileHamm(input)
                       ELSE ReadFilePlain(input)
    /\ pc' = "count"
    /\ UNCHANGED <<prog, min_sup_rate, input, min_sup, heap, stack, out, status>>

\* stoi throws, nothing catches it: std::terminate, SIGABRT
ReadThrows ==
    /\ pc = "read"
    /\ prog = "Plain" /\ StoiThrows(input)
    /\ pc' = "exit"
    /\ status' = 134
    /\ UNCHANGED <<prog, min_sup_rate, input, transactions, min_sup, heap,
                   stack, out>>

\* threshold, header table, top-level tree
BuildTree ==
    /\ pc = "count"
    /\ LET ms == MinSup(min_sup_rate, Len(transactions))
       IN /\ min_sup' = ms
          /\ heap' = <<BuildTop(prog, transactions, ms)>>
    /\ pc' = "open"
    /\ UNCHANGED <<prog, min_sup_rate, input, transactions, stack, out, status>>

\* ofstream outfile(output_file) opened; FP_Growth is called
OpenOutput ==
    /\ pc = "open"
    /\ stack' = <<[tree |-> 1, idx |-> 1, prefix |-> <<>>]>>
    /\ pc' = "mine"
    /\ UNCHANGED <<prog, min_sup_rate, input, transactions, min_sup, heap,
                   out, status>>

\* the output path is not writable: return 1
OpenFails ==
    /\ pc = "open"
    /\ pc' = "exit"
    /\ status' = 1
    /\ UNCHANGED <<prog, min_sup_rate, input, transactions, min_sup, heap,
                   stack, out>>

Top == stack[Len(stack)]
TopTree == heap[Top.tree]
Current == TopTree.headers[Top.idx]
AtEntry == pc = "mine" /\ stack # <<>> /\ Top.idx <= Len(TopTree.headers)
Advance == [stack EXCEPT ![Len(stack)].idx = @ + 1]
Emission ==
    write_output(prog, Append(Top.prefix, Current.item), Current.freq,
                 Len(transactions))

\* one loop iteration of FP_Growth taking the single-node branch
MineLinear ==
    /\ AtEntry
    /\ TakesShortcut(prog, TopTree.nodes, Current)
    /\ out' = out \o <<Emission>>
                  \o LinearOutput(TopTree.nodes, Current,
                                  Append(Top.prefix, Current.item), min_sup,
                                  Len(transactions))
    /\ stack' = Advance
    /\ UNCHANGED <<prog, min_sup_rate, input, pc, transactions, min_sup, heap,
                   status>>

\* one loop iteration ending at `if(newHeaders.empty()) continue;`
MineLeaf ==
    /\ AtEntry
    /\ ~TakesShortcut(prog, TopTree.nodes, Current)
    /\ NewHeaders(TopTree.nodes, Current, min_sup) = <<>>
    /\ out' = Append(out, Emission)
    /\ stack' = Advance
    /\ UNCHANGED <<prog, min_sup_rate, input, pc, transactions, min_sup, heap,
                   status>>

\* one loop iteration up to the recursive call: the conditional tree is
\* allocated and a frame is pushed
MineRecurse ==
    /\ AtEntry
    /\ ~TakesShortcut(prog, TopTree.nodes, Current)
    /\ NewHeaders(TopTree.nodes, Current, min_sup) # <<>>
    /\ Len(stack) < MaxDepth
    /\ out' = Append(out, Emission)
    /\ heap' = Append(heap, CondTree(prog, TopTree.nodes, Current, min_sup))
    /\ stack' = Append(Advance,
                       [tree |-> Len(heap) + 1, idx |-> 1,
                        prefix |-> NewPattern(prog, Top.prefix, Current)])
    /\ UNCHANGED <<prog, min_sup_rate, input, pc, transactions, min_sup, status>>

\* the recursion does not end: the process runs out of stack (SIGSEGV)
StackOverflow ==
    /\ AtEntry
    /\ ~TakesShortcut(prog, TopTree.nodes, Current)
    /\ NewHeaders(TopTree.nodes, Current, min_sup) # <<>>
    /\ Len(stack) >= MaxDepth
    /\ out' = Append(out, Emission)
    /\ pc' = "exit"
    /\ status' = 139
    /\ UNCHANGED <<prog, min_sup_rate, input, transactions, min_sup, heap, stack>>

\* a recursive FP_Growth call returns; its tree is not deleted
Return ==
    /\ pc = "mine" /\ Len(stack) > 1
    /\ Top.idx > Len(TopTree.headers)
    /\ stack' = SubSeq(stack, 1, Len(stack) - 1)
    /\ UNCHANGED <<prog, min_sup_rate, input, pc, transactions, min_sup, heap,
                   out, status>>

\* the top-level call returns; outfile.close(); return 0
Finish ==
    /\ pc = "mine" /\ Len(stack) = 1
    /\ Top.idx > Len(TopTree.headers)
    /\ stack' = <<>>
    /\ pc' = "exit"
    /\ status' = 0
    /\ UNCHANGED <<prog, min_sup_rate, input, transactions, min_sup, heap, out>>

\* Plain indexes headers[itemVal] while reading: an identifier at or above
\* Capacity that is converted before any token makes stoi throw
ReadsOutOfRange(lines) ==
    LET toks == Flatten(lines)
    IN \E i \in 1..Len(toks) :
          /\ toks[i].k # "junk" /\ toks[i].v >= Capacity
          /\ \A j \in 1..(i - 1) : toks[j].k # "junk"

\* the walk over the node-link chain adds to condCounts[parent->item] for an
\* ancestor at or above Capacity
CountsOutOfRange(nodes, header) ==
    LET ch == Chain(nodes, header.next)
    IN \E i \in 1..Len(ch) :
          \E j \in 1..Len(Ancestors(nodes, ch[i])) :
              Ancestors(nodes, ch[i])[j] >= Capacity

\* the places where the program indexes a per-item array of Capacity slots
\* with an identifier at or above Capacity
OutOfRange ==
    \/ pc = "read" /\ prog = "Plain" /\ ReadsOutOfRange(input)
    \/ /\ pc = "count" /\ prog = "Hamm"
       /\ LET hs == HeadersHamm(transactions,
                                MinSup(min_sup_rate, Len(transactions)))
          IN \E i \in 1..Len(hs) : hs[i].item >= Capacity
    \/ /\ AtEntry /\ ~TakesShortcut(prog, TopTree.nodes, Current)
       /\ CountsOutOfRange(TopTree.nodes, Current)

\* An access past the end of a per-item array is undefined behaviour.  The
\* outcomes: the access lands in memory nobody else uses (a write is kept
\* there, the scan of the Capacity slots never reads it: the other actions),
\* or the process dies of it: this action.  In FP_Growth the entry's own line
\* is written before the walk.
MemoryFault ==
    /\ OutOfRange
    /\ out' = IF pc = "mine" THEN Append(out, Emission) ELSE out
    /\ pc' = "exit"
    /\ status' = 139
    /\ UNCHANGED <<prog, min_sup_rate, input, transactions, min_sup, heap, stack>>

Next ==
    \/ ReadInput
    \/ ReadThrows
    \/ BuildTree
    \/ OpenOutput
    \/ OpenFails
    \/ MineLinear
    \/ MineLeaf
    \/ MineRecurse
    \/ StackOverflow
    \/ MemoryFault
    \/ Return
    \/ Finish

Spec == Init /\ [][Next]_vars

TypeOK ==
    /\ pc \in {"read", "count", "open", "mine", "exit"}
    /\ status \in {-1, 0, 1, 134, 139}
    /\ (pc = "exit") = (status # -1)

\* ------------------------------------------------------- reference notions
\* the item set of an input line
ItemSet(line) == {line[j].v : j \in 1..Len(line)}

\* every line is a transaction the programs can hold: a non-empty set of
\* items, each written once, every token an integer below Capacity
SetInput ==
    \A i \in 1..Len(input) :
        /\ input[i] # <<>>
        /\ \A j \in 1..Len(input[i]) :
              input[i][j].k = "int" /\ input[i][j].v < Capacity
        /\ \A j, k \in 1..Len(input[i]) : j # k => input[i][j] # input[i][k]

\* brute-force support: the input transactions that contain every item of I
Support(I) == Cardinality({i \in 1..Len(input) : I \subseteq ItemSet(input[i])})

AllItems == UNION {ItemSet(input[i]) : i \in 1..Len(input)}

Done == pc = "exit" /\ status = 0

Emitted == Range(out)

\* the (itemset, support) pairs of a sequence of output lines
Pairs(lines) == {<<Range(lines[i].items), lines[i].sup>> : i \in 1..Len(lines)}

\* the step-wise run writes what FP_Growth, taken as a function, writes
StepsAgreeWithFunction ==
    Done => out = RunOutput(prog, input, min_sup_rate)

\* ------------------------------------------------------------------ claims
\* C1 (soundness): for every input of transactions and every threshold,
\* every pair (I, s) written so far, by the per-header emission or by the
\* linear-path enumerator, has s equal to the number of input transactions
\* that contain I, and s >= min_sup >= 1.
C1_Soundness ==
    SetInput =>
        \A e \in Emitted :
            /\ e.sup = Support(Range(e.items))
            /\ e.sup >= min_sup
            /\ min_sup >= 1

\* a finished run of the program with the shortcut that wrote pairs from the
\* enumerator and from a recursive call
C1_Witness ==
    /\ Done /\ SetInput /\ prog = "Hamm"
    /\ Len(heap) >= 2
    /\ \E e \in Emitted : Len(e.items) = 3
    /\ \E e \in Emitted : e.sup = min_sup
    /\ \E e \in Emitted : e.sup > min_sup

\* C2 (completeness): after a run over transactions, every non-empty item
\* set whose brute-force support reaches min_sup has an output entry carrying
\* exactly that support.
C2_Completeness ==
    (Done /\ SetInput) =>
        \A I \in SUBSET AllItems :
            (I # {} /\ Support(I) >= min_sup) =>
                \E e \in Emitted : Range(e.items) = I /\ e.sup = Support(I)

\* scenario 1: the output itemsets are exactly 1:3, 2:3, 3:2, {1,2}:2, {2,3}:2
C2_Witness ==
    /\ Done /\ input = Scenario1 /\ min_sup_rate = <<1, 2>>
    /\ Len(input) = 4 /\ min_sup = 2
    /\ Pairs(out) = {<<{1}, 3>>, <<{2}, 3>>, <<{3}, 2>>, <<{1, 2}, 2>>,
                     <<{2, 3}, 2>>}

\* C3 (no duplicates): the output never holds two lines encoding the same
\* itemset.
C3_NoDuplicates ==
    SetInput =>
        \A i, j \in 1..Len(out) : i # j => out[i].items # out[j].items

\* the other program
Other(prog_) == IF prog_ = "Hamm" THEN "Plain" ELSE "Hamm"

\* C4 (linear-path equivalence): for every input of transactions and every
\* threshold, the program with the single-node shortcut and the program that
\* always builds the conditional pattern base and recurses produce the same
\* set of (itemset, support) pairs.
C4_LinearPathEquivalence ==
    (Done /\ SetInput) =>
        Pairs(out) = Pairs(RunOutput(Other(prog), input, min_sup_rate))

\* the shortcut ran on a header with two ancestors and the same run also
\* recursed
C4_Witness ==
    /\ Done /\ SetInput /\ prog = "Hamm"
    /\ Len(heap) >= 2
    /\ \E i \in 1..Len(heap[1].headers) :
          /\ is_single_node(heap[1].nodes, heap[1].headers[i])
          /\ Len(Ancestors(heap[1].nodes, heap[1].headers[i].next)) >= 2

\* the input with the items of every line in ascending order
Canonical(lines) ==
    [i \in 1..Len(lines) |->
        StdSort(lines[i], {p \in Pos(lines[i]) :
                              lines[i][p[1]].v < lines[i][p[2]].v})]

\* C5 (permutation invariance): writing the items of any transaction in
\* another order leaves the set of emitted (itemset, support) pairs unchanged:
\* the run on any ordering emits what the run on the ascending ordering emits.
C5_PermutationInvariance ==
    (Done /\ SetInput) =>
        Pairs(out) = Pairs(RunOutput(prog, Canonical(input), min_sup_rate))

\* a finished run over two lines, one of them not in ascending order, that
\* found an itemset of two items
C5_Witness ==
    /\ Done /\ SetInput
    /\ Len(input) = 2 /\ input # Canonical(input)
    /\ \E e \in Emitted : Len(e.items) >= 2

\* every token of the input is an integer
AllIntegers(lines) ==
    \A i \in 1..Len(lines) : \A j \in 1..Len(lines[i]) : lines[i][j].k = "int"

\* a line with each repeated item kept once
RECURSIVE Collapse(_)
Collapse(line) ==
    IF line = <<>> THEN <<>>
    ELSE LET rest == Collapse(SubSeq(line, 1, Len(line) - 1))
             last == line[Len(line)]
         IN IF last \in Range(rest) THEN rest ELSE Append(rest, last)

Collapsed(lines) == [i \in 1..Len(lines) |-> Collapse(lines[i])]

\* C6 (set semantics): an item repeated within one line is counted once: the
\* run ends normally and emits what it emits for the input in which the line
\* holds the item a single time.
C6_SetSemantics ==
    (AllIntegers(input) /\ pc = "exit" /\ status # 1) =>
        /\ status = 0
        /\ Pairs(out) = Pairs(RunOutput(prog, Collapsed(input), min_sup_rate))

\* ---- C7
HeaderItems(T) == {T.headers[i].item : i \in 1..Len(T.headers)}

\* the header entry whose loop iteration called the frame at depth d >= 2
CallerEntry(d) == heap[stack[d - 1].tree].headers[stack[d - 1].idx - 1]

\* the items that can be ancestors of the caller's entry: the entries of the
\* caller's table that come before it along a path
Candidates(d) ==
    LET hs == heap[stack[d - 1].tree].headers
    IN {hs[i].item : i \in {k \in 1..Len(hs) : PathLess(hs[k], CallerEntry(d))}}

\* C7 (inclusive threshold at every level): at the top level an item has a
\* header entry iff its support is >= min_sup; in a conditional call for a
\* prefix an item of the level's scope has an entry iff its support together
\* with the prefix is >= min_sup; an entry carries that support, and no table
\* ever holds an entry below min_sup.
C7_InclusiveThreshold ==
    SetInput =>
        /\ \A t \in 1..Len(heap) : \A i \in 1..Len(heap[t].headers) :
              heap[t].headers[i].freq >= min_sup
        /\ Len(heap) >= 1 =>
              /\ \A it \in AllItems :
                    (it \in HeaderItems(heap[1])) <=> (Support({it}) >= min_sup)
              /\ \A i \in 1..Len(heap[1].headers) :
                    heap[1].headers[i].freq = Support({heap[1].headers[i].item})
        /\ \A d \in 2..Len(stack) :
              LET T == heap[stack[d].tree]
                  P == Range(stack[d].prefix)
              IN /\ HeaderItems(T) \subseteq Candidates(d)
                 /\ \A it \in Candidates(d) :
                       (it \in HeaderItems(T)) <=> (Support(P \cup {it}) >= min_sup)
                 /\ \A i \in 1..Len(T.headers) :
                       T.headers[i].freq = Support(P \cup {T.headers[i].item})

\* a conditional call whose table holds an item whose support equals min_sup
\* exactly, while another item of the scope stays out
C7_Witness ==
    /\ SetInput /\ pc = "mine" /\ Len(stack) >= 2
    /\ LET T == heap[stack[Len(stack)].tree]
       IN /\ \E i \in 1..Len(T.headers) : T.headers[i].freq = min_sup
          /\ Candidates(Len(stack)) \ HeaderItems(T) # {}
    /\ \E i \in 1..Len(heap[1].headers) : heap[1].headers[i].freq = min_sup

\* ---- C8
\* the items of a set in ascending order
RECURSIVE Ascending(_)
Ascending(S) ==
    IF S = {} THEN <<>>
    ELSE LET m == CHOOSE x \in S : \A y \in S : x <= y
         IN <<m>> \o Ascending(S \ {m})

SameTransaction ==
    /\ Len(input) >= 1
    /\ \A i \in 1..Len(input) : ItemSet(input[i]) = ItemSet(input[1])

\* C8: for one transaction T repeated N >= 1 times and any ratio in (0,1],
\* the output holds every non-empty subset of T's items with support N and
\* nothing else.
C8_RepeatedTransaction ==
    (Done /\ SetInput /\ SameTransaction) =>
        Pairs(out) = {<<S, Len(input)>> : S \in (SUBSET ItemSet(input[1])) \ {{}}}

\* a transaction of three items repeated three times
C8_Witness ==
    /\ Done /\ SetInput /\ SameTransaction
    /\ Len(input) = 3 /\ Cardinality(ItemSet(input[1])) = 3
    /\ Cardinality(Pairs(out)) = 7

\* ---- C9
AntiMonotone ==
    \A e1, e2 \in Emitted :
        Range(e1.items) \subseteq Range(e2.items) => e1.sup >= e2.sup

\* what a step at recursion depth >= 2 writes extends the call's prefix, and
\* the prefix is in the output before the step
PrefixFirst ==
    (pc = "mine" /\ Len(stack) >= 2 /\ Len(out') > Len(out)) =>
        /\ \E e \in Emitted : Range(e.items) = Range(Top.prefix)
        /\ \A k \in (Len(out) + 1)..Len(out') :
              /\ Range(Top.prefix) \subseteq Range(out'[k].items)
              /\ Range(Top.prefix) # Range(out'[k].items)

\* C9 (anti-monotone output): of two emitted pairs (I, sI), (J, sJ) with I a
\* subset of J, sI >= sJ; and whenever a recursive call emits prefix + item,
\* the prefix was emitted earlier in the run.
C9_AntiMonotone ==
    [](SetInput => AntiMonotone) /\ [][SetInput => PrefixFirst]_vars

\* a recursive call two levels down has written a pair of three items
C9_Witness ==
    /\ SetInput /\ pc = "mine" /\ Len(stack) >= 3
    /\ \E e \in Emitted : Len(e.items) = 3
    /\ \E e1, e2 \in Emitted :
          Range(e1.items) \subseteq Range(e2.items) /\ e1.sup > e2.sup

\* ---- C10
Malformed(lines) == ~AllIntegers(lines)

\* C10 (malformed line): if any token of any line is not a valid integer the
\* whole run fails: it never ends with status 0 and never writes mining
\* output.
C10_MalformedFails ==
    Malformed(input) => (status # 0 /\ out = <<>>)

\* ---- C11
\* some line holds an identifier at or above Capacity
OverCapacity(lines) ==
    \E i \in 1..Len(lines) : \E j \in 1..Len(lines[i]) :
        lines[i][j].k # "junk" /\ lines[i][j].v >= Capacity

\* C11 (capacity error): an input holding an item identifier at or above the
\* capacity of the per-item arrays is rejected before mining: the run never
\* mines, never writes a line and never ends with status 0.
C11_CapacityError ==
    (OverCapacity(input) /\ AllIntegers(input)) =>
        (pc # "mine" /\ out = <<>> /\ status # 0)

\* ---- C12
\* C12 (output error ordering): a run that fails because the output file
\* cannot be opened has done no mining work: no FP-tree was constructed, the
\* miner was not called and nothing was written.
C12_OutputErrorOrdering ==
    status = 1 => (heap = <<>> /\ stack = <<>> /\ out = <<>>)

\* ---- C13
\* the input with its blank lines removed
NoBlank(lines) == SelectSeq(lines, LAMBDA l : l # <<>>)

\* C13 (blank lines are skipped): the number of transactions read, the
\* threshold derived from it and the lines written are those of the input
\* with its blank lines removed.
C13_BlankLinesSkipped ==
    /\ pc \in {"count", "open", "mine"} =>
          Len(transactions) = Len(NoBlank(input))
    /\ pc \in {"open", "mine"} =>
          min_sup = MinSup(min_sup_rate, Len(NoBlank(input)))
    /\ Done => out = RunOutput(prog, NoBlank(input), min_sup_rate)

\* ---- C14
\* the lines the enumerator wrote in the step: those after the entry's own
EnumeratorLines == SubSeq(out', Len(out) + 2, Len(out'))

\* the step is one loop iteration that invokes the enumerator
EnumeratorStep == AtEntry /\ TakesShortcut(prog, TopTree.nodes, Current)

\* C14 (linear-path enumerator output): invoked for a header entry h whose
\* single node has k ancestor items, the enumerator writes exactly one pair
\* (prefix + h.item + S, h.freq) for each non-empty subset S of the ancestors,
\* 2^k - 1 lines in all, and nothing for the empty subset (nothing at all for
\* k = 0).
C14_EnumeratorOutput ==
    [][(SetInput /\ EnumeratorStep) =>
          LET anc == Range(Ancestors(TopTree.nodes, Current.next))
              base == Range(Top.prefix) \cup {Current.item}
          IN /\ Len(EnumeratorLines) = 2 ^ Cardinality(anc) - 1
             /\ Pairs(EnumeratorLines) =
                   {<<base \cup S, Current.freq>> : S \in (SUBSET anc) \ {{}}}]_vars

\* ---- trees
\* the tree the last step built, if it built one: the top-level tree before
\* the output is opened, a conditional tree when its call is entered.  Trees
\* never change after they are built.
NewTrees ==
    IF pc = "open" THEN {1}
    ELSE IF pc = "mine" /\ Len(stack) > 1 /\ Top.tree = Len(heap) /\ Top.idx = 1
         THEN {Len(heap)}
         ELSE {}

\* the prefix the tree just built is conditional on
NewPrefix == IF stack = <<>> THEN {} ELSE Range(Top.prefix)

\* ---- C15
\* the header entries of tree T whose node-link chain has exactly one node
SingleNodeEntries(T) ==
    {i \in 1..Len(T.headers) : Len(Chain(T.nodes, T.headers[i].next)) = 1}

\* C15 (linear-path key invariant): in every tree built, top-level or
\* conditional for a prefix P, a header entry h with exactly one node on its
\* chain has, for every subset S of that node's ancestors, exactly h.freq
\* transactions of the tree's scope (those containing P) that contain h.item
\* and every item of S; h.freq is the node's count.
C15_LinearPathKey ==
    SetInput =>
        \A t \in NewTrees : \A i \in SingleNodeEntries(heap[t]) :
            LET T == heap[t]
                h == T.headers[i]
            IN /\ T.nodes[h.next].freq = h.freq
               /\ \A S \in SUBSET Range(Ancestors(T.nodes, h.next)) :
                     Support(NewPrefix \cup {h.item} \cup S) = h.freq

\* a conditional tree has just been built that has a single-node entry with
\* an ancestor and a count above 1, under a top-level tree that has a
\* single-node entry with two ancestors
C15_Witness ==
    /\ SetInput /\ Len(stack) >= 2
    /\ \E t \in NewTrees : \E i \in SingleNodeEntries(heap[t]) :
          /\ heap[t].headers[i].freq >= 2
          /\ Ancestors(heap[t].nodes, heap[t].headers[i].next) # <<>>
    /\ \E i \in SingleNodeEntries(heap[1]) :
          Len(Ancestors(heap[1].nodes, heap[1].headers[i].next)) >= 2

\* ---- C16
\* the sum of the counts of the nodes on a header entry's node-link chain
ChainSum(T, h) ==
    LET ch == Chain(T.nodes, h.next)
    IN SumSeq([k \in 1..Len(ch) |-> T.nodes[ch[k]].freq])

\* C16 (header aggregate invariant): in every tree built, top-level or
\* conditional, the freq of every header entry is the sum of the counts of
\* the nodes on its chain; and it is the number of transactions of the tree's
\* scope (those containing the call's prefix) that contain the item.
C16_HeaderAggregate ==
    SetInput =>
        \A t \in NewTrees : \A i \in 1..Len(heap[t].headers) :
            LET h == heap[t].headers[i]
            IN /\ h.freq = ChainSum(heap[t], h)
               /\ h.freq = Support(NewPrefix \cup {h.item})

\* a conditional tree has just been built, and it has an entry whose chain
\* has two nodes, one of them counting more than one transaction
C16_Witness ==
    /\ SetInput /\ Len(stack) >= 2
    /\ \E t \in NewTrees : \E i \in 1..Len(heap[t].headers) :
          LET ch == Chain(heap[t].nodes, heap[t].headers[i].next)
          IN /\ Len(ch) >= 2
             /\ \E k \in 1..Len(ch) : heap[t].nodes[ch[k]].freq >= 2

\* ---- C17
\* no node of T has two children holding the same item
NoTwinChildren(T) ==
    \A n \in 1..Len(T.nodes) :
        LET ch == T.nodes[n].children
        IN \A a, b \in 1..Len(ch) :
              a # b => T.nodes[ch[a]].item # T.nodes[ch[b]].item

\* inserting, under node n's parent, the item of n with multiplicity c adds c
\* to the count of n, moves to n and changes nothing else
SharesNode(T, n, c) ==
    LET r == InsertItem(T, HeaderIndex(T.headers, T.nodes[n].item), c,
                        T.nodes[n].parent)
    IN /\ r.curr = n
       /\ r.headers = T.headers
       /\ r.nodes = [T.nodes EXCEPT ![n].freq = @ + c]

\* C17 (prefix sharing): in every tree built no node has two children with
\* the same item, and inserting a sequence whose next item already has a
\* child under the current node adds the multiplicity to that child's count
\* and creates no node.
C17_PrefixSharing ==
    \A t \in NewTrees :
        /\ NoTwinChildren(heap[t])
        /\ \A n \in 2..Len(heap[t].nodes) : \A c \in 1..2 :
              HeaderIndex(heap[t].headers, heap[t].nodes[n].item) # 0 =>
                  SharesNode(heap[t], n, c)

\* the top-level tree and the conditional tree just built each have a node
\* with two children, and a node of the top-level tree is shared by two
\* transactions
C17_Witness ==
    /\ Len(heap) >= 2
    /\ \E n \in 1..Len(heap[1].nodes) : Len(heap[1].nodes[n].children) >= 2
    /\ \E n \in 2..Len(heap[1].nodes) : heap[1].nodes[n].freq >= 2
    /\ \E t \in NewTrees : \E n \in 1..Len(heap[t].nodes) :
          t >= 2 /\ Len(heap[t].nodes[n].children) >= 2

\* ---- C18
\* C18 (node-link chain integrity): in every tree built, the chain of every
\* header entry, from its head along the next-same-item links, is not empty,
\* visits exactly the nodes of the tree that hold the entry's item, each once
\* and in the order they were created, and ends at the entry's tail.
C18_ChainIntegrity ==
    \A t \in NewTrees : \A i \in 1..Len(heap[t].headers) :
        LET T == heap[t]
            h == T.headers[i]
            ch == Chain(T.nodes, h.next)
        IN /\ ch # <<>>
           /\ Range(ch) = {n \in 1..Len(T.nodes) : T.nodes[n].item = h.item}
           /\ \A a \in 1..(Len(ch) - 1) : ch[a] < ch[a + 1]
           /\ ch[Len(ch)] = h.tail

\* the top-level tree and the conditional tree just built each have an entry
\* whose chain threads two nodes or more, and the top-level tree one that
\* threads three
C18_Witness ==
    /\ Len(heap) >= 2
    /\ \E i \in 1..Len(heap[1].headers) :
          Len(Chain(heap[1].nodes, heap[1].headers[i].next)) >= 3
    /\ \E t \in NewTrees : \E i \in 1..Len(heap[t].headers) :
          t >= 2 /\ Len(Chain(heap[t].nodes, heap[t].headers[i].next)) >= 2

\* ---- C19
\* the header entry of tree T for the item of node n
EntryOf(T, n) == T.headers[HeaderIndex(T.headers, T.nodes[n].item)]

\* C19 (ordering policy): in every tree built every node holds an item of
\* the tree's header table, and along every path from the root each node
\* comes strictly after its parent in the order descending freq, ties by
\* ascending item, taken from that tree's header table.
C19_OrderingPolicy ==
    SetInput =>
        \A t \in NewTrees : \A n \in 2..Len(heap[t].nodes) :
            LET T == heap[t]
                p == T.nodes[n].parent
            IN /\ HeaderIndex(T.headers, T.nodes[n].item) # 0
               /\ p # 1 => PathLess(EntryOf(T, p), EntryOf(T, n))

\* the conditional tree just built has a node under a parent of larger item
\* and larger freq, and the top-level tree a node under a parent of equal freq
C19_Witness ==
    /\ SetInput /\ Len(heap) >= 2
    /\ \E t \in NewTrees : \E n \in 2..Len(heap[t].nodes) :
          LET T == heap[t]
              p == T.nodes[n].parent
          IN /\ t >= 2 /\ p # 1
             /\ T.nodes[p].item > T.nodes[n].item
             /\ EntryOf(T, p).freq > EntryOf(T, n).freq
    /\ \E n \in 2..Len(heap[1].nodes) :
          LET p == heap[1].nodes[n].parent
          IN p # 1 /\ EntryOf(heap[1], p).freq = EntryOf(heap[1], n).freq

\* ---- C20
\* the table of every recursive call is not empty and holds only items of the
\* caller's table other than the item the caller was mining
UniverseShrinks ==
    \A d \in 2..Len(stack) :
        /\ heap[stack[d].tree].headers # <<>>
        /\ HeaderItems(heap[stack[d].tree]) \subseteq
              HeaderItems(heap[stack[d - 1].tree]) \ {CallerEntry(d).item}

\* a base above the size of any header table
Base == MaxId + 3

\* what the frame at depth d can still cost: its entries not yet mined,
\* weighted by the size of its table
FrameWork(d) ==
    LET n == Len(heap[stack[d].tree].headers)
    IN (n + 1 - stack[d].idx) * Base ^ n

\* a bound on the steps the run can still take
Measure ==
    IF pc = "read" THEN Base ^ Base + 3
    ELSE IF pc = "count" THEN Base ^ Base + 2
    ELSE IF pc = "open" THEN Base ^ Base + 1
    ELSE IF pc = "mine"
         THEN SumSeq([d \in 1..Len(stack) |-> FrameWork(d)]) + Len(stack)
         ELSE 0

\* C20 (termination): for every input of transactions and every ratio the
\* miner terminates: every step of the run lowers a natural number, the run
\* never exhausts the stack and is never left without a step before main
\* returns; the header table passed to a recursive call holds only items of
\* the caller's table other than the caller's current item, and no call is
\* made with an empty table (an entry with no ancestor reaching min_sup).
C20_Termination ==
    /\ [](SetInput =>
            /\ status # 139 /\ UniverseShrinks /\ Measure >= 0
            /\ pc = "mine" => stack # <<>>)
    /\ [][SetInput => Measure' < Measure]_vars

\* a run over transactions has ended after three recursive calls or more, one
\* of its entries having had ancestors of which none reached min_sup
C20_Witness ==
    /\ Done /\ SetInput /\ Len(heap) >= 4
    /\ \E t \in 1..Len(heap) : \E i \in 1..Len(heap[t].headers) :
          /\ CondPathsHamm(heap[t].nodes, heap[t].headers[i]) # <<>>
          /\ NewHeaders(heap[t].nodes, heap[t].headers[i], min_sup) = <<>>

\* ---- C21
\* the conditional trees that exist: every tree allocated by a recursive
\* mining step and not deleted since (position 1 is the top-level tree)
LiveTrees == DOMAIN heap \ {1}

\* the conditional trees of the FP_Growth calls on the recursion stack
FrameTrees == {stack[d].tree : d \in DOMAIN stack} \ {1}

\* C21 (tree lifetime): every conditional tree is created by exactly one
\* recursive mining step (the step that pushes a frame allocates exactly one
\* tree, the tree of that frame, and no other step allocates one) and is
\* destroyed when that call returns: while the miner runs, the conditional
\* trees that exist are exactly the trees of the calls on the recursion stack.
C21_TreeLifetime ==
    pc = "mine" =>
        /\ LiveTrees = FrameTrees
        /\ \A d, e \in DOMAIN stack : stack[d].tree = stack[e].tree => d = e

\* ---- C22
\* tree T with its header entries taken in the order p
Reordered(T, p) ==
    [T EXCEPT !.headers = [i \in 1..Len(p) |-> T.headers[p[i]]]]

\* the multiset of (itemset, support) pairs of a sequence of output lines
PairBag(lines) ==
    LET pairs == [i \in 1..Len(lines) |->
                    <<Range(lines[i].items), lines[i].sup>>]
    IN [q \in Range(pairs) |-> Occurrences(pairs, q)]

\* the lines FP_Growth writes for tree T, its entries processed in order p
MinedInOrder(T, p, prefix, depth) ==
    FP_Growth(prog, Reordered(T, p), prefix, min_sup, Len(transactions), depth)

\* every processing order of T's header entries emits the same multiset
OrderIndependent(T, prefix, depth) ==
    LET asBuilt == PairBag(MinedInOrder(T, [i \in 1..Len(T.headers) |-> i],
                                        prefix, depth))
    IN \A p \in Orderings(1..Len(T.headers)) :
          PairBag(MinedInOrder(T, p, prefix, depth)) = asBuilt

\* C22 (independence of header entries): no step of the miner (emission,
\* linear-path enumeration, pattern-base construction, conditional tree build,
\* the recursion below an entry and the return from it) changes a tree that
\* exists: its nodes (item, count, parent, children, next-same-item) and its
\* header entries stay as built; and for every tree, top-level or
\* conditional, the multiset of (itemset, support) pairs the miner emits for
\* it is the same for every processing order of its header entries.
C22_EntryIndependence ==
    /\ [][\A t \in DOMAIN heap : t \in DOMAIN heap' /\ heap'[t] = heap[t]]_vars
    /\ [](\A t \in NewTrees :
             OrderIndependent(heap[t],
                              IF stack = <<>> THEN <<>> ELSE Top.prefix,
                              IF stack = <<>> THEN 1 ELSE Len(stack)))

\* a run has ended after two recursive calls or more, the top-level tree
\* holding three entries or more of which some other order writes the lines
\* in another sequence
C22_Witness ==
    /\ Done /\ Len(heap) >= 3 /\ Len(heap[1].headers) >= 3
    /\ \E p \in Orderings(1..Len(heap[1].headers)) :
          MinedInOrder(heap[1], p, <<>>, 1) # out

====
